---- MODULE Spec2Model ----
(***************************************************************************)
(* Model of testerx.data_access.json_data_access.JsonDataAccess: the       *)
(* JSON-file record store, the .npy vector store, the tag registry and the *)
(* Faiss IndexFlatL2 index that is rebuilt from the files.                 *)
(*                                                                         *)
(* A directory is a function whose DOMAIN is the set of ids that have a    *)
(* file.  Python's Optional is a sequence of length at most one: None is   *)
(* <<>> and a value v is <<v>>.  A dict is a function from its keys.       *)
(* Vectors are tuples of small integers; a similarity score is kept as     *)
(* twice its value so that 1 - d/2 stays an integer.                       *)
(***************************************************************************)
EXTENDS Integers, Sequences, FiniteSets, TLC

VARIABLES
    memories,            \* memories/<id>.json : id -> record
    embeddings,          \* embeddings/<id>.npy : id -> vector
    tags_file,           \* tags.json : the list it holds
    tags_json,           \* tags.json : "list", "missing" or "garbage" (not valid JSON)
    tags,                \* self.tags
    faiss_index,         \* self.faiss_index : the rows held by the IndexFlatL2
    memory_ids_indexed,  \* self.memory_ids_indexed
    next_uuid,           \* the next id uuid.uuid4() hands out
    clock,               \* datetime.datetime.now(), one tick per call
    last,                \* the call that ran last: arguments, steps, outcome
    calls                \* the calls of concurrent threads: position and locals

vars == <<memories, embeddings, tags_file, tags_json, tags, faiss_index,
          memory_ids_indexed, next_uuid, clock, last, calls>>

store == <<memories, embeddings, tags_file, tags_json, tags, faiss_index, memory_ids_indexed>>

----------------------------------------------------------------------------
(* Bounds *)

\* uuid.uuid4() hands out the ids 1..MaxIds; id 0 is an id this process did not
\* hand out: a string the caller made up, or the id of a record an earlier
\* process wrote
MaxIds == 2
\* number of calls in a run
MaxOps == 3
\* top_k ranges over 1..MaxTopK
MaxTopK == 3

\* JsonDataAccess(data_dir, embedding_dimension=2)
embedding_dimension == 2

----------------------------------------------------------------------------
(* Python values *)

None == <<>>
Some(v) == <<v>>

\* `x or default` for an Optional list / dict argument
OrElse(opt, default) == IF opt = None \/ opt[1] = <<>> THEN default ELSE opt[1]

\* truth value of an Optional list argument, of an Optional str argument
TruthyList(opt) == opt # None /\ opt[1] # <<>>
TruthyStr(opt) == opt # None /\ opt[1] # ""

Min(a, b) == IF a <= b THEN a ELSE b

InSeq(x, s) == \E k \in 1..Len(s) : s[k] = x

\* every enumeration of a finite set, each element once (os.listdir order)
Listings(S) ==
    {s \in [1..Cardinality(S) -> S] : \A i, j \in 1..Cardinality(S) : s[i] = s[j] => i = j}

----------------------------------------------------------------------------
(* The embedding provider: a deterministic map from text to a vector *)

get_embedding(input_text) ==
    CASE input_text = ""  -> <<0, 0>>
      [] input_text = "a" -> <<1, 0>>
      [] input_text = "b" -> <<0, 1>>
      [] input_text = "c" -> <<2, 2>>
      [] OTHER            -> <<1, 1>>

----------------------------------------------------------------------------
(* Tag registry *)

RECURSIVE AppendMissing(_, _)
AppendMissing(registry, tag_names) ==
    IF tag_names = <<>> THEN registry
    ELSE AppendMissing(
             IF InSeq(Head(tag_names), registry) THEN registry
             ELSE Append(registry, Head(tag_names)),
             Tail(tag_names))

\* variant: the registry is replaced by the tags of the call
_add_tags_replacing(registry, tag_names) == tag_names

\* variant: every name of the call is appended, present or not
_add_tags_appending_all(registry, tag_names) == registry \o tag_names

\* self.tags after the loop of _add_tags
_add_tags(registry, tag_names) == AppendMissing(registry, tag_names)

----------------------------------------------------------------------------
(* Record files *)

\* variant: the metadata argument is dropped
_format_memory_data_without_metadata(id, now, content, content_type, p_tags, metadata, importance) ==
    [id           |-> id,
     content      |-> content,
     content_type |-> content_type,
     tags         |-> OrElse(p_tags, <<>>),
     metadata     |-> <<>>,
     importance   |-> importance,
     created_at   |-> now,
     updated_at   |-> now]

_format_memory_data(id, now, content, content_type, p_tags, metadata, importance) ==
    [id           |-> id,
     content      |-> content,
     content_type |-> content_type,
     tags         |-> OrElse(p_tags, <<>>),
     metadata     |-> OrElse(metadata, <<>>),
     importance   |-> importance,
     created_at   |-> now,
     updated_at   |-> now]

\* A value of a metadata dict carries its Python type: json.dump writes a
\* tuple as an array, and json.load reads an array back as a list.
PyStr(text) == [py |-> "str", v |-> text]
PyList(items) == [py |-> "list", v |-> items]
PyTuple(items) == [py |-> "tuple", v |-> items]

\* what json.load gives back for a value json.dump wrote
json_value(value) == IF value.py = "tuple" THEN PyList(value.v) ELSE value

json_object(dict) == [k \in DOMAIN dict |-> json_value(dict[k])]

\* the content of the file written for memory_data, as json.load reads it:
\* every key but 'embedding'
data_to_save(memory_data) ==
    [k \in DOMAIN memory_data \ {"embedding"} |->
        IF k = "metadata" THEN json_object(memory_data[k]) ELSE memory_data[k]]

\* the directory after _save_memory(memory_data): the file is named by the
\* record's own 'id' field
_save_memory(dir, memory_data) ==
    [i \in DOMAIN dir \cup {memory_data.id} |->
        IF i = memory_data.id THEN data_to_save(memory_data) ELSE dir[i]]

_load_memory(dir, memory_id) ==
    IF memory_id \in DOMAIN dir THEN Some(dir[memory_id]) ELSE None

_load_embedding(dir, memory_id) ==
    IF memory_id \in DOMAIN dir THEN Some(dir[memory_id]) ELSE None

\* np.save(path, embedding)
np_save(dir, memory_id, embedding) ==
    [i \in DOMAIN dir \cup {memory_id} |-> IF i = memory_id THEN embedding ELSE dir[i]]

\* os.remove(path)
os_remove(dir, memory_id) == [i \in DOMAIN dir \ {memory_id} |-> dir[i]]

----------------------------------------------------------------------------
(* Index rebuild *)

\* _build_faiss_index over the listing of memories/.  io_error: os.listdir or
\* np.load raises.  The result is the pair of fields and whether it raised.
_build_faiss_index(embs, listing, io_error, old_index, old_ids) ==
    LET indexed_memory_ids == SelectSeq(listing, LAMBDA i : _load_embedding(embs, i) # None)
        embeddings_list == [k \in 1..Len(indexed_memory_ids) |-> embs[indexed_memory_ids[k]]]
        ragged == \E j, k \in 1..Len(embeddings_list) :
                      Len(embeddings_list[j]) # Len(embeddings_list[k])
    IN  IF io_error
        THEN [index |-> old_index, ids |-> old_ids, raised |-> TRUE]
        ELSE IF embeddings_list = <<>>
        THEN [index |-> <<>>, ids |-> <<>>, raised |-> FALSE]
        ELSE IF ragged  \* np.array(...) raises ValueError
        THEN [index |-> old_index, ids |-> old_ids, raised |-> TRUE]
        ELSE IF Len(embeddings_list[1]) # embedding_dimension
        \* self.faiss_index is already the new empty index when add() raises
        THEN [index |-> <<>>, ids |-> old_ids, raised |-> TRUE]
        ELSE [index |-> embeddings_list, ids |-> indexed_memory_ids, raised |-> FALSE]

----------------------------------------------------------------------------
(* A call in progress: the files and fields as the call has left them so   *)
(* far, the exception that ended it ("" while it runs) and the steps done. *)

Start ==
    [memories |-> memories, embeddings |-> embeddings, tags_file |-> tags_file,
     tags_json |-> tags_json, tags |-> tags, faiss_index |-> faiss_index,
     memory_ids_indexed |-> memory_ids_indexed, raised |-> "", log |-> <<>>]

Raise(s, what) == [s EXCEPT !.raised = what]

\* _add_tags then _save_tags: the registry grows in memory, then tags.json is
\* rewritten from it
do_add_tags(s, tag_names, faults) ==
    IF s.raised # "" THEN s
    ELSE LET grown == [s EXCEPT !.tags = _add_tags(s.tags, tag_names)]
         IN  IF "save_tags" \in faults THEN Raise(grown, "save_tags")
             ELSE [grown EXCEPT !.tags_file = grown.tags, !.tags_json = "list",
                                !.log = Append(s.log, "save_tags")]

\* self.embedding_model_client.get_embedding(content)
do_get_embedding(s, faults) ==
    IF s.raised # "" THEN s
    ELSE IF "get_embedding" \in faults THEN Raise(s, "get_embedding")
    ELSE [s EXCEPT !.log = Append(s.log, "get_embedding")]

do_save_memory(s, memory_data, faults) ==
    IF s.raised # "" THEN s
    ELSE IF "save_memory" \in faults THEN Raise(s, "save_memory")
    ELSE [s EXCEPT !.memories = _save_memory(s.memories, memory_data),
                   !.log = Append(s.log, "save_memory")]

do_build_faiss_index(s, faults, listing) ==
    IF s.raised # "" THEN s
    ELSE LET built == _build_faiss_index(
                          s.embeddings,
                          \* _get_all_memory_ids: the .json files, in listing order
                          SelectSeq(listing, LAMBDA i : i \in DOMAIN s.memories),
                          "build_index" \in faults,
                          s.faiss_index, s.memory_ids_indexed)
         IN  [s EXCEPT !.faiss_index = built.index,
                       !.memory_ids_indexed = built.ids,
                       !.raised = IF built.raised THEN "build_index" ELSE "",
                       !.log = IF built.raised THEN s.log ELSE Append(s.log, "build_index")]

\* _save_embedding: np.save, then _update_faiss_index_single rebuilds
do_save_embedding(s, memory_id, embedding, faults, listing) ==
    IF s.raised # "" THEN s
    ELSE IF "np_save" \in faults THEN Raise(s, "np_save")
    ELSE do_build_faiss_index(
             [s EXCEPT !.embeddings = np_save(s.embeddings, memory_id, embedding),
                       !.log = Append(s.log, "np_save")],
             faults, listing)

----------------------------------------------------------------------------
(* add_memory *)

\* variant: the record is saved before the embedding is requested
run_add_memory_saving_first(content, content_type, metadata, p_tags, importance, faults, listing) ==
    LET memory_data == _format_memory_data(next_uuid, clock, content, content_type,
                                           p_tags, metadata, importance)
        s1 == IF TruthyList(p_tags) THEN do_add_tags(Start, p_tags[1], faults) ELSE Start
        s2 == do_save_memory(s1, memory_data, faults)
        s3 == do_get_embedding(s2, faults)
        embedding_np == get_embedding(content)
        s4 == do_save_embedding(s3, memory_data.id, embedding_np, faults, listing)
    IN  [s |-> s4,
         ret |-> IF s4.raised = "" THEN _load_memory(s4.memories, memory_data.id) ELSE None]

run_add_memory(content, content_type, metadata, p_tags, importance, faults, listing) ==
    LET memory_data == _format_memory_data(next_uuid, clock, content, content_type,
                                           p_tags, metadata, importance)
        s1 == IF TruthyList(p_tags) THEN do_add_tags(Start, p_tags[1], faults) ELSE Start
        s2 == do_get_embedding(s1, faults)
        embedding_np == get_embedding(content)
        s3 == do_save_memory(s2, memory_data, faults)
        s4 == do_save_embedding(s3, memory_data.id, embedding_np, faults, listing)
    IN  [s |-> s4,
         ret |-> IF s4.raised = "" THEN _load_memory(s4.memories, memory_data.id) ELSE None]

get_memory_by_id(memory_id) == _load_memory(memories, memory_id)

----------------------------------------------------------------------------
(* add_api_doc_memory, add_test_case_memory, add_conversation_memory *)

PyNone == [py |-> "NoneType", v |-> ""]

\* dict.update
dict_update(base, other) ==
    [k \in DOMAIN base \cup DOMAIN other |->
        IF k \in DOMAIN other THEN other[k] ELSE base[k]]

\* `if metadata: combined_metadata.update(metadata)`
combined_metadata(fixed, metadata) == dict_update(fixed, OrElse(metadata, <<>>))

\* variant: the canonical tag is appended whether or not it is there
combined_tags_always_appending(p_tags, canonical) ==
    Append(OrElse(p_tags, <<>>), canonical)

\* `combined_tags = tags or []`, then the canonical tag is appended if it is
\* not in the list
combined_tags(p_tags, canonical) ==
    IF InSeq(canonical, OrElse(p_tags, <<>>)) THEN OrElse(p_tags, <<>>)
    ELSE Append(OrElse(p_tags, <<>>), canonical)

\* the metadata keys each constructor sets, optional arguments left out
api_doc_metadata(api_path, method) ==
    [k \in {"api_path", "method", "summary", "description", "request_example",
            "response_example"} |->
        IF k = "api_path" THEN PyStr(api_path)
        ELSE IF k = "method" THEN PyStr(method) ELSE PyNone]

test_case_metadata(test_name, test_type, test_script) ==
    [k \in {"test_name", "test_type", "test_script", "api_doc_id"} |->
        IF k = "test_name" THEN PyStr(test_name)
        ELSE IF k = "test_type" THEN PyStr(test_type)
        ELSE IF k = "test_script" THEN PyStr(test_script) ELSE PyNone]

conversation_metadata(role, message) ==
    [k \in {"role", "message"} |-> IF k = "role" THEN PyStr(role) ELSE PyStr(message)]

run_add_api_doc_memory(content, api_path, method, metadata, p_tags, importance, faults, listing) ==
    run_add_memory(content, "api_doc",
                   Some(combined_metadata(api_doc_metadata(api_path, method), metadata)),
                   Some(combined_tags(p_tags, "api")), importance, faults, listing)

run_add_test_case_memory(content, test_name, test_type, test_script, metadata, p_tags, importance, faults, listing) ==
    run_add_memory(content, "test_case",
                   Some(combined_metadata(test_case_metadata(test_name, test_type, test_script),
                                          metadata)),
                   Some(combined_tags(p_tags, "test")), importance, faults, listing)

run_add_conversation_memory(role, message, metadata, p_tags, importance, faults, listing) ==
    run_add_memory(message, "conversation",
                   Some(combined_metadata(conversation_metadata(role, message), metadata)),
                   Some(combined_tags(p_tags, "conversation")), importance, faults, listing)

----------------------------------------------------------------------------
(* update_memory *)

\* the loop over kwargs: a sequence of <<key, value>>
RECURSIVE apply_kwargs(_, _, _)
apply_kwargs(acc, kwargs, faults) ==
    IF kwargs = <<>> \/ acc.s.raised # "" THEN acc
    ELSE LET key == Head(kwargs)[1]
             value == Head(kwargs)[2]
         IN  apply_kwargs(
                 IF key = "tags"
                 THEN [data |-> [acc.data EXCEPT !.tags = value],
                       s |-> do_add_tags(acc.s, value, faults)]
                 ELSE IF key \in DOMAIN acc.data
                 THEN [data |-> [acc.data EXCEPT ![key] = value], s |-> acc.s]
                 ELSE acc,
                 Tail(kwargs), faults)

\* `if content:` of update_memory
content_given(content) == TruthyStr(content)

\* variant: the record is saved before the embedding is requested
run_update_memory_saving_first(memory_id, content, embedding, kwargs, faults, listing) ==
    LET loaded == _load_memory(memories, memory_id)
        k == apply_kwargs([data |-> loaded[1], s |-> Start], kwargs, faults)
        with_content == content_given(content)
        data1 == IF with_content THEN [k.data EXCEPT !.content = content[1]] ELSE k.data
        data2 == [data1 EXCEPT !.updated_at = clock]
        s2 == do_save_memory(k.s, data2, faults)
        s3 == IF with_content THEN do_get_embedding(s2, faults) ELSE s2
        new_embedding == IF with_content THEN Some(get_embedding(content[1])) ELSE embedding
        s4 == IF new_embedding # None
              THEN do_save_embedding(s3, memory_id, new_embedding[1], faults, listing)
              ELSE s3
    IN  IF loaded = None
        THEN [s |-> Start, ret |-> Some(FALSE)]
        ELSE [s |-> s4, ret |-> IF s4.raised = "" THEN Some(TRUE) ELSE None]

run_update_memory(memory_id, content, embedding, kwargs, faults, listing) ==
    LET loaded == _load_memory(memories, memory_id)
        k == apply_kwargs([data |-> loaded[1], s |-> Start], kwargs, faults)
        with_content == content_given(content)
        data1 == IF with_content THEN [k.data EXCEPT !.content = content[1]] ELSE k.data
        s2 == IF with_content THEN do_get_embedding(k.s, faults) ELSE k.s
        new_embedding == IF with_content THEN Some(get_embedding(content[1])) ELSE embedding
        data2 == [data1 EXCEPT !.updated_at = clock]
        s3 == do_save_memory(s2, data2, faults)
        s4 == IF new_embedding # None
              THEN do_save_embedding(s3, memory_id, new_embedding[1], faults, listing)
              ELSE s3
    IN  IF loaded = None
        THEN [s |-> Start, ret |-> Some(FALSE)]
        ELSE [s |-> s4, ret |-> IF s4.raised = "" THEN Some(TRUE) ELSE None]

----------------------------------------------------------------------------
(* delete_memory *)

\* variant: an OSError of os.remove is swallowed and success stays as it was
remove_outcome_ignoring_errors(success, exists, os_error) == success

\* one `if os.path.exists(f): try: os.remove(f) except OSError: success = False`
remove_outcome(success, exists, os_error) ==
    IF exists /\ os_error THEN FALSE ELSE success

run_delete_memory(memory_id, faults, listing) ==
    LET had_record == memory_id \in DOMAIN memories
        had_vector == memory_id \in DOMAIN embeddings
        record_error == "remove_memory" \in faults
        vector_error == "remove_embedding" \in faults
        success == remove_outcome(remove_outcome(TRUE, had_record, record_error),
                                  had_vector, vector_error)
        s1 == IF had_record /\ ~record_error
              THEN [Start EXCEPT !.memories = os_remove(memories, memory_id),
                                 !.log = Append(Start.log, "remove_memory")]
              ELSE Start
        s2 == IF had_vector /\ ~vector_error
              THEN [s1 EXCEPT !.embeddings = os_remove(embeddings, memory_id),
                              !.log = Append(s1.log, "remove_embedding")]
              ELSE s1
        s3 == IF success THEN do_build_faiss_index(s2, faults, listing) ELSE s2
    IN  [s |-> s3, ret |-> IF s3.raised = "" THEN Some(success) ELSE None]

----------------------------------------------------------------------------
(* clear_all_data *)

\* variant: the registry in memory is not loaded again
run_clear_all_data_keeping_registry(faults, listing) ==
    LET cleared == [Start EXCEPT !.memories = <<>>, !.embeddings = <<>>,
                                 !.tags_file = <<>>, !.tags_json = "list",
                                 !.log = <<"rmtree", "ensure_directories">>]
        s1 == IF "rmtree" \in faults THEN Raise(Start, "rmtree")
              ELSE do_build_faiss_index(cleared, faults, listing)
    IN  [s |-> s1, ret |-> IF s1.raised = "" THEN Some(TRUE) ELSE None]

run_clear_all_data(faults, listing) ==
    LET cleared == [Start EXCEPT !.memories = <<>>, !.embeddings = <<>>,
                                 !.tags_file = <<>>, !.tags_json = "list",
                                 !.tags = <<>>,
                                 !.log = <<"rmtree", "ensure_directories", "load_tags">>]
        s1 == IF "rmtree" \in faults THEN Raise(Start, "rmtree")
              ELSE do_build_faiss_index(cleared, faults, listing)
    IN  [s |-> s1, ret |-> IF s1.raised = "" THEN Some(TRUE) ELSE None]

----------------------------------------------------------------------------
(* Vector search *)

RECURSIVE SumSq(_, _)
SumSq(u, v) ==
    IF u = <<>> THEN 0
    ELSE (Head(u) - Head(v)) * (Head(u) - Head(v)) + SumSq(Tail(u), Tail(v))

\* squared Euclidean distance, the metric of IndexFlatL2
L2sqr(u, v) == SumSq(u, v)

\* row j goes before row k in the result of IndexFlatL2.search
Nearer(query, rows, j, k) ==
    \/ L2sqr(query, rows[j]) < L2sqr(query, rows[k])
    \/ L2sqr(query, rows[j]) = L2sqr(query, rows[k]) /\ j < k

\* faiss_index.search(query, top_k): the labels I[0] and distances D[0], nearest
\* first, filled with label -1 when the index holds fewer than top_k rows
faiss_search(rows, query, top_k) ==
    LET n == Len(rows)
        rank(j) == 1 + Cardinality({k \in 1..n : Nearer(query, rows, k, j)})
        at(p) == CHOOSE j \in 1..n : rank(j) = p
    IN  [p \in 1..top_k |->
            IF p <= n THEN [label |-> at(p) - 1, D |-> L2sqr(query, rows[at(p)])]
            ELSE [label |-> -1, D |-> -1]]

\* twice the similarity score: 1.0 - D/2.0 if D <= 2.0 else 0.0
similarity_score(D) == IF D <= 2 THEN 2 - D ELSE 0

\* variant of the sort below: an item goes before the items of equal score
RECURSIVE InsertByScoreUnstable(_, _)
InsertByScoreUnstable(sorted, item) ==
    IF sorted = <<>> THEN <<item>>
    ELSE IF Head(sorted).score > item.score
    THEN <<Head(sorted)>> \o InsertByScoreUnstable(Tail(sorted), item)
    ELSE <<item>> \o sorted

\* results.sort(key=lambda x: x[1], reverse=True): a stable sort, equal scores
\* keep the order they had
RECURSIVE InsertByScore(_, _)
InsertByScore(sorted, item) ==
    IF sorted = <<>> THEN <<item>>
    ELSE IF Head(sorted).score >= item.score
    THEN <<Head(sorted)>> \o InsertByScore(Tail(sorted), item)
    ELSE <<item>> \o sorted

RECURSIVE sort_by_score(_)
sort_by_score(results) ==
    IF results = <<>> THEN <<>>
    ELSE InsertByScore(sort_by_score(SubSeq(results, 1, Len(results) - 1)),
                       results[Len(results)])

\* variant: label 0 is taken for "no hit"
valid_label_positive(index) == index > 0 /\ index < Len(memory_ids_indexed)

\* `index != -1 and index < len(self.memory_ids_indexed)`
valid_label(index) == index # -1 /\ index < Len(memory_ids_indexed)

\* variant: the content_type filter is not applied
passes_filters_ignoring_type(memory_data, content_type, p_tags) ==
    ~(TruthyList(p_tags) /\
      ~(\A k \in 1..Len(p_tags[1]) : InSeq(p_tags[1][k], memory_data.tags)))

\* the filters of find_similar_memories let this record through
passes_filters(memory_data, content_type, p_tags) ==
    /\ ~(TruthyStr(content_type) /\ memory_data.content_type # content_type[1])
    /\ ~(TruthyList(p_tags) /\
         ~(\A k \in 1..Len(p_tags[1]) : InSeq(p_tags[1][k], memory_data.tags)))

\* the loop over I[0]: each hit is <<memory_data, score>>; D and memory_id are
\* kept beside it to state the claims.  raised: memory_data is None and a
\* filter calls memory_data.get
RECURSIVE collect_results(_, _, _, _)
collect_results(hits, i, content_type, p_tags) ==
    IF i > Len(hits) THEN [results |-> <<>>, raised |-> ""]
    ELSE LET index == hits[i].label
             valid == valid_label(index)
             memory_id == memory_ids_indexed[index + 1]
             memory_data == _load_memory(memories, memory_id)
             filtering == TruthyStr(content_type) \/ TruthyList(p_tags)
             rest == collect_results(hits, i + 1, content_type, p_tags)
             item == [memory_data |-> memory_data,
                      score |-> similarity_score(hits[i].D),
                      D |-> hits[i].D, memory_id |-> memory_id]
         IN  IF ~valid THEN rest
             ELSE IF memory_data = None /\ filtering
             THEN [results |-> <<>>, raised |-> "AttributeError"]
             ELSE IF memory_data # None /\ ~passes_filters(memory_data[1], content_type, p_tags)
             THEN rest
             ELSE [results |-> <<item>> \o rest.results, raised |-> rest.raised]

find_similar_memories(query_embedding, content_type, p_tags, top_k) ==
    IF Len(faiss_index) = 0 THEN [results |-> <<>>, raised |-> ""]
    ELSE LET hits == faiss_search(faiss_index, query_embedding, top_k)
             found == collect_results(hits, 1, content_type, p_tags)
             sorted == sort_by_score(found.results)
         IN  IF found.raised # "" THEN found
             ELSE [results |-> SubSeq(sorted, 1, Min(top_k, Len(sorted))),
                   raised |-> ""]

search_memories(query_text, content_type, p_tags, top_k, faults) ==
    IF "get_embedding" \in faults THEN [results |-> <<>>, raised |-> "get_embedding"]
    ELSE find_similar_memories(get_embedding(query_text), content_type, p_tags, top_k)

----------------------------------------------------------------------------
(* Bulk query by tags *)

\* variant: a record matches when it has any of the tags, whatever require_all
tags_match_any(memory_tags, p_tags, require_all) ==
    \E k \in 1..Len(p_tags) : InSeq(p_tags[k], memory_tags)

\* `all(tag in memory_tags for tag in tags)` when require_all, else `any(...)`
tags_match(memory_tags, p_tags, require_all) ==
    IF require_all
    THEN \A k \in 1..Len(p_tags) : InSeq(p_tags[k], memory_tags)
    ELSE \E k \in 1..Len(p_tags) : InSeq(p_tags[k], memory_tags)

\* the loop over _get_all_memory_ids(): the matching records, in listing order
get_memories_by_tags(p_tags, require_all, listing) ==
    LET matching == SelectSeq(listing,
                        LAMBDA i : tags_match(memories[i].tags, p_tags, require_all))
    IN  [k \in 1..Len(matching) |-> memories[matching[k]]]

----------------------------------------------------------------------------
(* The calls as actions *)

Ids == 0..MaxIds

\* the ids self.memory_ids_indexed holds
IndexedIds == {memory_ids_indexed[k] : k \in 1..Len(memory_ids_indexed)}

\* the fields and files take the values the call left, the call is recorded
Commit(r, call) ==
    /\ memories' = r.s.memories
    /\ embeddings' = r.s.embeddings
    /\ tags_file' = r.s.tags_file
    /\ tags_json' = r.s.tags_json
    /\ tags' = r.s.tags
    /\ faiss_index' = r.s.faiss_index
    /\ memory_ids_indexed' = r.s.memory_ids_indexed
    /\ clock' = clock + 1
    /\ last' = [op |-> call.op, id |-> call.id, args |-> call.args,
                faults |-> call.faults, raised |-> r.s.raised, ret |-> r.ret,
                log |-> r.s.log]
    /\ UNCHANGED calls

\* os.listdir(memories_dir) may report the files in any order
DirListings(files) == Listings(files)

AddMemory(Cs, Ts, Ms, TGs, Is, Fs) ==
    /\ clock < MaxOps
    /\ next_uuid <= MaxIds
    /\ \E content \in Cs, content_type \in Ts, metadata \in Ms, p_tags \in TGs,
          importance \in Is, faults \in Fs,
          listing \in DirListings(DOMAIN memories \cup {next_uuid}) :
           Commit(run_add_memory(content, content_type, metadata, p_tags,
                                 importance, faults, listing),
                  [op |-> "add_memory", id |-> next_uuid, faults |-> faults,
                   args |-> [content |-> content, content_type |-> content_type,
                             metadata |-> metadata, tags |-> p_tags,
                             importance |-> importance]])
    /\ next_uuid' = next_uuid + 1

AddApiDocMemory(Cs, Ms, TGs, Fs) ==
    /\ clock < MaxOps
    /\ next_uuid <= MaxIds
    /\ \E content \in Cs, metadata \in Ms, p_tags \in TGs, faults \in Fs,
          listing \in DirListings(DOMAIN memories \cup {next_uuid}) :
           Commit(run_add_api_doc_memory(content, "/pets", "GET", metadata, p_tags, 1,
                                         faults, listing),
                  [op |-> "add_api_doc_memory", id |-> next_uuid, faults |-> faults,
                   args |-> [content |-> content, metadata |-> metadata,
                             tags |-> p_tags]])
    /\ next_uuid' = next_uuid + 1

AddTestCaseMemory(Cs, Ms, TGs, Fs) ==
    /\ clock < MaxOps
    /\ next_uuid <= MaxIds
    /\ \E content \in Cs, metadata \in Ms, p_tags \in TGs, faults \in Fs,
          listing \in DirListings(DOMAIN memories \cup {next_uuid}) :
           Commit(run_add_test_case_memory(content, "lists pets", "functional", "script",
                                           metadata, p_tags, 1, faults, listing),
                  [op |-> "add_test_case_memory", id |-> next_uuid, faults |-> faults,
                   args |-> [content |-> content, metadata |-> metadata,
                             tags |-> p_tags]])
    /\ next_uuid' = next_uuid + 1

AddConversationMemory(Cs, Ms, TGs, Fs) ==
    /\ clock < MaxOps
    /\ next_uuid <= MaxIds
    /\ \E message \in Cs, metadata \in Ms, p_tags \in TGs, faults \in Fs,
          listing \in DirListings(DOMAIN memories \cup {next_uuid}) :
           Commit(run_add_conversation_memory("user", message, metadata, p_tags, 1,
                                              faults, listing),
                  [op |-> "add_conversation_memory", id |-> next_uuid, faults |-> faults,
                   args |-> [content |-> message, metadata |-> metadata,
                             tags |-> p_tags]])
    /\ next_uuid' = next_uuid + 1

\* a call of _add_tags(tag_names) by itself
run_add_tags(tag_names, faults) ==
    LET s1 == do_add_tags(Start, tag_names, faults)
    IN  [s |-> s1, ret |-> IF s1.raised = "" THEN Some(tag_names) ELSE None]

EnsureTags(TNs, Fs) ==
    /\ clock < MaxOps
    /\ \E tag_names \in TNs, faults \in Fs :
           Commit(run_add_tags(tag_names, faults),
                  [op |-> "_add_tags", id |-> 0, faults |-> faults,
                   args |-> [tag_names |-> tag_names]])
    /\ UNCHANGED next_uuid

\* _ensure_directories: tags.json is created holding [] when it does not exist
_ensure_directories(s) ==
    IF s.tags_json = "missing"
    THEN [s EXCEPT !.tags_json = "list", !.tags_file = <<>>,
                   !.log = Append(s.log, "create_tags_file")]
    ELSE s

\* variant: a file that does not parse is not written again
_load_tags_without_saving(s) ==
    IF s.tags_json = "list"
    THEN [s EXCEPT !.tags = s.tags_file, !.log = Append(s.log, "load_tags")]
    ELSE [s EXCEPT !.tags = <<>>, !.log = Append(s.log, "load_tags")]

\* _load_tags: json.load of tags.json; on JSONDecodeError or FileNotFoundError
\* the registry is [] and _save_tags writes it
_load_tags(s) ==
    IF s.tags_json = "list"
    THEN [s EXCEPT !.tags = s.tags_file, !.log = Append(s.log, "load_tags")]
    ELSE [s EXCEPT !.tags = <<>>, !.tags_file = <<>>, !.tags_json = "list",
                   !.log = Append(Append(s.log, "load_tags"), "save_tags")]

\* JsonDataAccess(data_dir) over the directory as it is: a new process
run_init(listing) ==
    LET loaded == _load_tags(_ensure_directories(Start))
        fresh == [loaded EXCEPT !.faiss_index = <<>>, !.memory_ids_indexed = <<>>]
        s1 == do_build_faiss_index(fresh, {}, listing)
    IN  [s |-> s1, ret |-> None]

Construct ==
    /\ clock < MaxOps
    /\ \E listing \in DirListings(DOMAIN memories) :
           Commit(run_init(listing),
                  [op |-> "__init__", id |-> 0, faults |-> {},
                   args |-> [found |-> tags_json]])
    /\ UNCHANGED next_uuid

\* between two calls tags.json is removed, or overwritten with text that is
\* not JSON, by something other than the store
DamageTagsFile(Kinds) ==
    /\ tags_json = "list"
    /\ \E kind \in Kinds : tags_json' = kind
    /\ tags_file' = <<>>
    /\ UNCHANGED <<memories, embeddings, tags, faiss_index, memory_ids_indexed,
                   next_uuid, clock, last, calls>>

\* the ids a caller can name: its own string 0 and the uuids handed out so far
KnownIds == 0..(next_uuid - 1)

\* a caller passes an id it has seen, never a future uuid
KnownId(kwargs) ==
    \A k \in 1..Len(kwargs) : kwargs[k][1] = "id" => kwargs[k][2] \in KnownIds

\* the values an 'id' key of kwargs carries
IdsNamed(kwargs) ==
    {kwargs[k][2] : k \in {j \in 1..Len(kwargs) : kwargs[j][1] = "id"}}

UpdateMemory(Cs, Es, Ks, Fs) ==
    /\ clock < MaxOps
    /\ \E memory_id \in KnownIds, content \in Cs, embedding \in Es,
          kwargs \in {k \in Ks : KnownId(k)}, faults \in Fs :
         \E listing \in DirListings(DOMAIN memories \cup IdsNamed(kwargs)) :
           Commit(run_update_memory(memory_id, content, embedding, kwargs,
                                    faults, listing),
                  [op |-> "update_memory", id |-> memory_id, faults |-> faults,
                   args |-> [content |-> content, embedding |-> embedding,
                             kwargs |-> kwargs]])
    /\ UNCHANGED next_uuid

DeleteMemory(Fs) ==
    /\ clock < MaxOps
    /\ \E memory_id \in KnownIds, faults \in Fs,
          listing \in DirListings(DOMAIN memories) :
           Commit(run_delete_memory(memory_id, faults, listing),
                  [op |-> "delete_memory", id |-> memory_id, faults |-> faults,
                   args |-> <<>>])
    /\ UNCHANGED next_uuid

ClearAllData(Fs) ==
    /\ clock < MaxOps
    /\ \E faults \in Fs, listing \in DirListings(DOMAIN memories) :
           Commit(run_clear_all_data(faults, listing),
                  [op |-> "clear_all_data", id |-> 0, faults |-> faults, args |-> <<>>])
    /\ UNCHANGED next_uuid

\* search_memories changes no file and no field; the call and its result are
\* recorded
SearchMemories(Qs, Ts, TGs, Ks, Fs) ==
    /\ clock < MaxOps
    /\ \E query_text \in Qs, content_type \in Ts, p_tags \in TGs, top_k \in Ks,
          faults \in Fs :
           LET found == search_memories(query_text, content_type, p_tags, top_k, faults)
           IN  last' = [op |-> "search_memories", id |-> 0,
                        args |-> [query_text |-> query_text,
                                  content_type |-> content_type,
                                  tags |-> p_tags, top_k |-> top_k],
                        faults |-> faults, raised |-> found.raised,
                        ret |-> IF found.raised = "" THEN Some(found.results) ELSE None,
                        log |-> <<>>]
    /\ clock' = clock + 1
    /\ UNCHANGED <<store, next_uuid, calls>>

\* get_memories_by_tags changes no file and no field; the call and its result
\* are recorded
GetMemoriesByTags(TGs) ==
    /\ clock < MaxOps
    /\ \E p_tags \in TGs, require_all \in BOOLEAN,
          listing \in DirListings(DOMAIN memories) :
           last' = [op |-> "get_memories_by_tags", id |-> 0,
                    args |-> [tags |-> p_tags, require_all |-> require_all],
                    faults |-> {}, raised |-> "",
                    ret |-> Some(get_memories_by_tags(p_tags, require_all, listing)),
                    log |-> <<>>]
    /\ clock' = clock + 1
    /\ UNCHANGED <<store, next_uuid, calls>>

----------------------------------------------------------------------------
(* The store under create / update / delete with failing files and provider *)

\* a new JsonDataAccess over an empty data directory
Init ==
    /\ memories = <<>>
    /\ embeddings = <<>>
    /\ tags_file = <<>>
    /\ tags_json = "list"
    /\ tags = <<>>
    /\ faiss_index = <<>>
    /\ memory_ids_indexed = <<>>
    /\ next_uuid = 1
    /\ clock = 0
    /\ last = [op |-> "init", id |-> 0, args |-> <<>>, faults |-> {}, raised |-> "",
               ret |-> None, log |-> <<>>]
    /\ calls = <<>>

Meta1 == [k \in {"source"} |-> PyStr("doc")]
Meta2 == [k \in {"source"} |-> PyStr("chat")]
MetaSpan == [k \in {"span"} |-> PyTuple(<<1, 2>>)]

AddContents == {"a"}
AddTypes == {"t1"}
AddMetadata == {None, Some(Meta1), Some(MetaSpan)}
AddTags == {None, Some(<<"x">>)}
AddImportance == {1}
AddFaults == {{}, {"save_tags"}, {"get_embedding"}, {"save_memory"}, {"np_save"},
              {"build_index"}}

UpdateContents == {None, Some(""), Some("b")}
UpdateEmbeddings == {None, Some(<<1, 1>>)}
UpdateKwargs ==
    {<<>>,
     << <<"tags", <<>>>> >>,
     << <<"tags", <<"y">>>>, <<"metadata", Meta2>>, <<"importance", 0>> >>,
     << <<"id", 0>> >>,
     << <<"created_at", 0>>, <<"content_type", "t2">>, <<"bogus", 1>> >>}
UpdateFaults == {{}, {"save_tags"}, {"get_embedding"}, {"save_memory"}, {"np_save"},
                 {"build_index"}}

DeleteFaults == SUBSET {"remove_memory", "remove_embedding"} \cup {{"build_index"}}
ClearFaults == {{}, {"rmtree"}, {"build_index"}}

Next ==
    \/ AddMemory(AddContents, AddTypes, AddMetadata, AddTags, AddImportance, AddFaults)
    \/ UpdateMemory(UpdateContents, UpdateEmbeddings, UpdateKwargs, UpdateFaults)
    \/ DeleteMemory(DeleteFaults)
    \/ ClearAllData(ClearFaults)

Spec == Init /\ [][Next]_vars

\* the same calls when no file operation and no provider call fails
NextReliable ==
    \/ AddMemory(AddContents, AddTypes, AddMetadata, AddTags, AddImportance, {{}})
    \/ UpdateMemory(UpdateContents, UpdateEmbeddings, UpdateKwargs, {{}})
    \/ DeleteMemory({{}})
    \/ ClearAllData({{}})

SpecReliable == Init /\ [][NextReliable]_vars

----------------------------------------------------------------------------
(* The store under search: fewer kinds of record, every kind of query *)

SearchAddContents == {"a", "b", "c"}
SearchAddTypes == {"t1", "t2"}
SearchAddTags == {None, Some(<<"x">>)}
SearchAddFaults == {{}, {"np_save"}, {"build_index"}}
SearchUpdateContents == {None, Some("c")}
SearchUpdateEmbeddings == {None, Some(<<1>>)}
SearchUpdateKwargs == {<<>>}
SearchUpdateFaults == {{}}
SearchQueries == {"", "a"}
SearchTypes == {None, Some("t1")}
SearchTags == {None, Some(<<"x">>)}
SearchFaults == {{}, {"get_embedding"}}

NextSearch ==
    \/ AddMemory(SearchAddContents, SearchAddTypes, {None}, SearchAddTags, {1},
                 SearchAddFaults)
    \/ UpdateMemory(SearchUpdateContents, SearchUpdateEmbeddings, SearchUpdateKwargs,
                    SearchUpdateFaults)
    \/ DeleteMemory(DeleteFaults)
    \/ SearchMemories(SearchQueries, SearchTypes, SearchTags, 1..MaxTopK, SearchFaults)

SpecSearch == Init /\ [][NextSearch]_vars

----------------------------------------------------------------------------
(* A store constructed over a data directory that already holds one record, *)
(* written by an earlier process: __init__ loads tags.json and builds the   *)
(* index from the files.                                                     *)

StoredRecord ==
    [id |-> 0, content |-> "a", content_type |-> "t1", tags |-> <<"x", "y">>,
     metadata |-> <<>>, importance |-> 1, created_at |-> -1, updated_at |-> -1]

StoredDirectory ==
    /\ memories = [i \in {0} |-> StoredRecord]
    /\ embeddings = [i \in {0} |-> get_embedding("a")]
    /\ tags_file = <<"x", "y">>
    /\ tags_json = "list"
    /\ tags = <<"x", "y">>
    /\ faiss_index = <<get_embedding("a")>>
    /\ memory_ids_indexed = <<0>>
    /\ next_uuid = 1
    /\ clock = 0
    /\ last = [op |-> "init", id |-> 0, args |-> <<>>, faults |-> {}, raised |-> "",
               ret |-> None, log |-> <<>>]

InitStored == StoredDirectory /\ calls = <<>>

StoredAddTags == {None, Some(<<"x">>), Some(<<"y">>)}
StoredUpdateContents == {None, Some("b")}
StoredUpdateKwargs == {<<>>, << <<"tags", <<"y">>>> >>, << <<"id", 0>> >>}
StoredQueryTags == {<<>>, <<"x">>, <<"x", "y">>, <<"z">>}

NextStored ==
    \/ AddMemory({"a"}, {"t1"}, {None}, StoredAddTags, {1}, {{}})
    \/ UpdateMemory(StoredUpdateContents, {None}, StoredUpdateKwargs, {{}})
    \/ DeleteMemory({{}})
    \/ GetMemoriesByTags(StoredQueryTags)

SpecStored == InitStored /\ [][NextStored]_vars

----------------------------------------------------------------------------
(* Search over a store that already holds a record *)

StoredSearchUpdateEmbeddings == {None, Some(<<1, 0>>)}
StoredSearchDeleteFaults == {{}, {"remove_memory"}}
StoredSearchQueries == {"a", "b"}

NextStoredSearch ==
    \/ AddMemory({"b"}, {"t1"}, {None}, {None}, {1}, {{}})
    \/ UpdateMemory({None}, StoredSearchUpdateEmbeddings, {<<>>}, {{}})
    \/ DeleteMemory(StoredSearchDeleteFaults)
    \/ SearchMemories(StoredSearchQueries, {None}, {None}, 1..MaxTopK, {{}})

SpecStoredSearch == InitStored /\ [][NextStoredSearch]_vars

----------------------------------------------------------------------------
(* The tag registry by itself *)

TagNames == {"x", "y", "z"}

\* the lists of at most two tag names, a name repeated included
TagLists == {<<>>} \cup {<<a>> : a \in TagNames} \cup {<<a, b>> : a, b \in TagNames}

NextTags ==
    \/ EnsureTags(TagLists, {{}, {"save_tags"}})
    \/ AddMemory({"a"}, {"t1"}, {None}, {None, Some(<<"x", "x">>)}, {1}, {{}})

SpecTags == Init /\ [][NextTags]_vars

----------------------------------------------------------------------------
(* The store constructed again over a directory whose tags.json was lost    *)
(* or damaged                                                               *)

DamagedKinds == {"missing", "garbage"}

NextRestart ==
    \/ DamageTagsFile(DamagedKinds)
    \/ Construct
    \/ EnsureTags({<<"x">>, <<"y">>, <<"x", "y">>}, {{}})
    \/ AddMemory({"a"}, {"t1"}, {None}, {None, Some(<<"x">>)}, {1}, {{}})

SpecRestart == Init /\ [][NextRestart]_vars

----------------------------------------------------------------------------
(* Two threads call the same store with no lock.  A call is a sequence of   *)
(* steps, one per access to a file or to a field of the store; the steps of *)
(* the two calls interleave freely.  No file operation fails here.          *)

Threads == {1, 2}

\* a thread that has not called yet
Idle ==
    [op |-> "", pc |-> "idle", id |-> 0, content |-> "", data |-> <<>>,
     query_text |-> "", top_k |-> 0, ids |-> <<>>, i |-> 0, rows |-> <<>>,
     indexed |-> <<>>, hits |-> <<>>, results |-> <<>>, ret |-> None]

\* thread t moves on: its locals change as given, the other thread's do not
Goto(t, locals) == calls' = [calls EXCEPT ![t] = locals]

\* add_memory up to the first write: _format_memory_data and get_embedding
CallAdd(t, Cs) ==
    /\ calls[t].pc = "idle"
    /\ clock < MaxOps
    /\ next_uuid <= MaxIds
    /\ \E content \in Cs :
           Goto(t, [Idle EXCEPT !.op = "add_memory", !.pc = "save_memory",
                                !.id = next_uuid, !.content = content,
                                !.data = _format_memory_data(next_uuid, clock, content,
                                                             "t1", None, None, 1)])
    /\ next_uuid' = next_uuid + 1
    /\ clock' = clock + 1
    /\ UNCHANGED <<store, last>>

\* self._save_memory(memory_data)
AddSaveMemory(t) ==
    /\ calls[t].pc = "save_memory"
    /\ memories' = _save_memory(memories, calls[t].data)
    /\ Goto(t, [calls[t] EXCEPT !.pc = "np_save"])
    /\ UNCHANGED <<embeddings, tags_file, tags_json, tags, faiss_index, memory_ids_indexed,
                   next_uuid, clock, last>>

\* np.save of _save_embedding
AddSaveEmbedding(t) ==
    /\ calls[t].pc = "np_save"
    /\ embeddings' = np_save(embeddings, calls[t].id, get_embedding(calls[t].content))
    /\ Goto(t, [calls[t] EXCEPT !.pc = "listdir"])
    /\ UNCHANGED <<memories, tags_file, tags_json, tags, faiss_index, memory_ids_indexed,
                   next_uuid, clock, last>>

CallDelete(t) ==
    /\ calls[t].pc = "idle"
    /\ \E memory_id \in KnownIds :
           Goto(t, [Idle EXCEPT !.op = "delete_memory", !.pc = "remove_memory",
                                !.id = memory_id])
    /\ UNCHANGED <<store, next_uuid, clock, last>>

\* `if os.path.exists(memory_file): os.remove(memory_file)`
DeleteRemoveMemory(t) ==
    /\ calls[t].pc = "remove_memory"
    /\ memories' = os_remove(memories, calls[t].id)
    /\ Goto(t, [calls[t] EXCEPT !.pc = "remove_embedding"])
    /\ UNCHANGED <<embeddings, tags_file, tags_json, tags, faiss_index, memory_ids_indexed,
                   next_uuid, clock, last>>

\* `if os.path.exists(embedding_file): os.remove(embedding_file)`; success
\* is still True, so the rebuild follows
DeleteRemoveEmbedding(t) ==
    /\ calls[t].pc = "remove_embedding"
    /\ embeddings' = os_remove(embeddings, calls[t].id)
    /\ Goto(t, [calls[t] EXCEPT !.pc = "listdir"])
    /\ UNCHANGED <<memories, tags_file, tags_json, tags, faiss_index, memory_ids_indexed,
                   next_uuid, clock, last>>

\* variant: the rebuild goes over the ids the index already holds, not over
\* the files
BuildListdirOfIndexedIds(t) ==
    /\ calls[t].pc = "listdir"
    /\ \E listing \in DirListings(IndexedIds) :
           Goto(t, [calls[t] EXCEPT !.ids = listing, !.i = 1, !.rows = <<>>,
                                    !.indexed = <<>>,
                                    !.pc = IF listing = <<>> THEN "assign_index"
                                           ELSE "load"])
    /\ UNCHANGED <<store, next_uuid, clock, last>>

\* _build_faiss_index: memory_ids = self._get_all_memory_ids()
BuildListdir(t) ==
    /\ calls[t].pc = "listdir"
    /\ \E listing \in DirListings(DOMAIN memories) :
           Goto(t, [calls[t] EXCEPT !.ids = listing, !.i = 1, !.rows = <<>>,
                                    !.indexed = <<>>,
                                    !.pc = IF listing = <<>> THEN "assign_index"
                                           ELSE "load"])
    /\ UNCHANGED <<store, next_uuid, clock, last>>

\* one turn of the loop of _build_faiss_index: self._load_embedding(memory_id)
BuildLoad(t) ==
    /\ calls[t].pc = "load"
    /\ LET memory_id == calls[t].ids[calls[t].i]
           embedding == _load_embedding(embeddings, memory_id)
       IN  Goto(t, [calls[t] EXCEPT
                       !.rows = IF embedding # None THEN Append(@, embedding[1]) ELSE @,
                       !.indexed = IF embedding # None THEN Append(@, memory_id) ELSE @,
                       !.i = @ + 1,
                       !.pc = IF calls[t].i = Len(calls[t].ids) THEN "assign_index"
                              ELSE "load"])
    /\ UNCHANGED <<store, next_uuid, clock, last>>

\* self.faiss_index = faiss.IndexFlatL2(...); self.faiss_index.add(...)
BuildAssignIndex(t) ==
    /\ calls[t].pc = "assign_index"
    /\ faiss_index' = calls[t].rows
    /\ Goto(t, [calls[t] EXCEPT !.pc = "assign_ids"])
    /\ UNCHANGED <<memories, embeddings, tags_file, tags_json, tags, memory_ids_indexed,
                   next_uuid, clock, last>>

\* self.memory_ids_indexed = indexed_memory_ids
BuildAssignIds(t) ==
    /\ calls[t].pc = "assign_ids"
    /\ memory_ids_indexed' = calls[t].indexed
    /\ Goto(t, [calls[t] EXCEPT !.pc = "return"])
    /\ UNCHANGED <<memories, embeddings, tags_file, tags_json, tags, faiss_index,
                   next_uuid, clock, last>>

\* search_memories up to the search: get_embedding(query_text) and the test
\* of self.faiss_index.ntotal
CallSearch(t, Qs, Ks) ==
    /\ calls[t].pc = "idle"
    /\ \E query_text \in Qs, top_k \in Ks :
           Goto(t, [Idle EXCEPT !.op = "search_memories", !.query_text = query_text,
                                !.top_k = top_k,
                                !.pc = IF Len(faiss_index) = 0 THEN "return"
                                       ELSE "faiss_search"])
    /\ UNCHANGED <<store, next_uuid, clock, last>>

\* D, I = self.faiss_index.search(query_embedding, top_k)
SearchFaiss(t) ==
    /\ calls[t].pc = "faiss_search"
    /\ Goto(t, [calls[t] EXCEPT
                   !.hits = faiss_search(faiss_index, get_embedding(calls[t].query_text),
                                         calls[t].top_k),
                   !.i = 1, !.pc = "hits"])
    /\ UNCHANGED <<store, next_uuid, clock, last>>

\* one turn of the loop over I[0], no filter given
SearchHit(t) ==
    /\ calls[t].pc = "hits"
    /\ LET hit == calls[t].hits[calls[t].i]
           memory_id == memory_ids_indexed[hit.label + 1]
           item == [memory_data |-> _load_memory(memories, memory_id),
                    score |-> similarity_score(hit.D),
                    D |-> hit.D, memory_id |-> memory_id]
       IN  Goto(t, [calls[t] EXCEPT
                       !.results = IF valid_label(hit.label) THEN Append(@, item) ELSE @,
                       !.i = @ + 1,
                       !.pc = IF calls[t].i = Len(calls[t].hits) THEN "return"
                              ELSE "hits"])
    /\ UNCHANGED <<store, next_uuid, clock, last>>

\* what the call of thread t returns
ReturnValue(t) ==
    IF calls[t].op = "add_memory" THEN _load_memory(memories, calls[t].id)
    ELSE IF calls[t].op = "delete_memory" THEN Some(TRUE)
    ELSE LET sorted == sort_by_score(calls[t].results)
         IN  Some(SubSeq(sorted, 1, Min(calls[t].top_k, Len(sorted))))

Return(t) ==
    /\ calls[t].pc = "return"
    /\ Goto(t, [calls[t] EXCEPT !.pc = "done", !.ret = ReturnValue(t)])
    /\ last' = [op |-> calls[t].op, id |-> calls[t].id, args |-> <<>>, faults |-> {},
                raised |-> "", ret |-> ReturnValue(t), log |-> <<>>]
    /\ UNCHANGED <<store, next_uuid, clock>>

InitConcurrent == StoredDirectory /\ calls = [t \in Threads |-> Idle]

ConcurrentAddContents == {"b"}
ConcurrentQueries == {"a"}
ConcurrentTopK == {1, 2}

NextConcurrent ==
    \E t \in Threads :
        \/ CallAdd(t, ConcurrentAddContents)
        \/ AddSaveMemory(t)
        \/ AddSaveEmbedding(t)
        \/ CallDelete(t)
        \/ DeleteRemoveMemory(t)
        \/ DeleteRemoveEmbedding(t)
        \/ BuildListdir(t)
        \/ BuildLoad(t)
        \/ BuildAssignIndex(t)
        \/ BuildAssignIds(t)
        \/ CallSearch(t, ConcurrentQueries, ConcurrentTopK)
        \/ SearchFaiss(t)
        \/ SearchHit(t)
        \/ Return(t)

SpecConcurrent == InitConcurrent /\ [][NextConcurrent]_vars

----------------------------------------------------------------------------
(* The store under the type-specific constructors *)

TypedContents == {"a", "b"}
TypedMetadata == {None, Some(Meta1)}
TypedTags ==
    {None, Some(<<>>), Some(<<"x">>), Some(<<"api">>), Some(<<"test", "x">>),
     Some(<<"x", "conversation">>), Some(<<"api", "api">>)}
TypedFaults == {{}, {"get_embedding"}}

NextTyped ==
    \/ AddApiDocMemory(TypedContents, TypedMetadata, TypedTags, TypedFaults)
    \/ AddTestCaseMemory(TypedContents, TypedMetadata, TypedTags, TypedFaults)
    \/ AddConversationMemory(TypedContents, TypedMetadata, TypedTags, TypedFaults)
    \/ DeleteMemory({{}})

SpecTyped == Init /\ [][NextTyped]_vars

----------------------------------------------------------------------------
(* Properties *)

Mutating == {"add_memory", "update_memory", "delete_memory"}

\* C1: after any sequence of add / update / delete calls the index holds as
\* many ids as there are vector files, and as many as there are record files.
C1_IndexAndFilesAgreeInNumber ==
    last.op \in Mutating =>
        /\ Len(memory_ids_indexed) = Cardinality(DOMAIN embeddings)
        /\ Len(memory_ids_indexed) = Cardinality(DOMAIN memories)

\* C2: after every mutating call, returned or raised, the ids that have a
\* vector file are exactly the ids the index holds.
C2_IndexedIdsAreVectorFiles ==
    last.op \in Mutating \cup {"clear_all_data"} => IndexedIds = DOMAIN embeddings

\* the call reached the provider while the provider was failing
ProviderFailed(call) ==
    /\ "get_embedding" \in call.faults
    /\ call.raised = "get_embedding" \/ InSeq("get_embedding", call.log)

\* C3: when the provider fails during add_memory the error propagates, the
\* generated id has neither a record file nor a vector file, and the index is
\* as it was before the call.
C3_AddLeavesNoFilesWhenEmbeddingFails ==
    [][(last'.op = "add_memory" /\ ProviderFailed(last')) =>
        /\ last'.raised = "get_embedding"
        /\ last'.ret = None
        /\ last'.id \notin DOMAIN memories'
        /\ last'.id \notin DOMAIN embeddings'
        /\ faiss_index' = faiss_index
        /\ memory_ids_indexed' = memory_ids_indexed]_vars

C3_Witness ==
    /\ last.op = "add_memory"
    /\ last.raised = "get_embedding"
    /\ last.id \notin DOMAIN memories
    /\ Len(memory_ids_indexed) > 0

Writes == {"save_tags", "save_memory", "np_save"}

\* position of a step in a call's log, 0 when the call did not do it
StepAt(log, step) ==
    IF InSeq(step, log) THEN CHOOSE k \in 1..Len(log) : log[k] = step ELSE 0

\* C4: add_memory embeds, then writes the tag registry, then the record, then
\* the vector; nothing is written before the embedding has returned, so a
\* call whose embedding fails has written nothing.
C4_AddEmbedsBeforeAnyWrite ==
    last.op = "add_memory" =>
        /\ \A k \in 1..Len(last.log) :
               last.log[k] \in Writes =>
                   /\ StepAt(last.log, "get_embedding") > 0
                   /\ StepAt(last.log, "get_embedding") < k
        /\ \A j, k \in 1..Len(last.log) :
               (last.log[j] = "save_memory" /\ last.log[k] = "save_tags") => k < j
        /\ \A j, k \in 1..Len(last.log) :
               (last.log[j] = "np_save" /\ last.log[k] = "save_memory") => k < j
        /\ (ProviderFailed(last) => last.log = <<>>)

\* C5: when the provider fails during an update_memory that supplies content,
\* the record file of the id keeps every field, and the vector file of the id
\* and the index are unchanged.
C5_UpdateKeepsRecordWhenEmbeddingFails ==
    [][(/\ last'.op = "update_memory"
        /\ last'.id \in DOMAIN memories
        /\ last'.args.content # None
        /\ ProviderFailed(last')) =>
        /\ last'.raised = "get_embedding"
        /\ last'.id \in DOMAIN memories'
        /\ memories'[last'.id] = memories[last'.id]
        /\ _load_embedding(embeddings', last'.id) = _load_embedding(embeddings, last'.id)
        /\ faiss_index' = faiss_index
        /\ memory_ids_indexed' = memory_ids_indexed]_vars

C5_Witness ==
    /\ last.op = "update_memory"
    /\ last.raised = "get_embedding"
    /\ last.args.content = Some("b")
    /\ Len(last.args.kwargs) = 3
    /\ last.id \in DOMAIN memories
    /\ memories[last.id].content = "a"
    /\ memories[last.id].importance = 1

\* C6: delete_memory of an id without a record returns false and does not
\* raise; a second delete_memory of the same id right after one that returned
\* true returns false.
C6_DeleteReportsAbsence ==
    [][(last'.op = "delete_memory") =>
        /\ (last'.id \notin DOMAIN memories =>
                last'.raised = "" /\ last'.ret = Some(FALSE))
        /\ ((last.op = "delete_memory" /\ last.id = last'.id /\ last.ret = Some(TRUE)) =>
                last'.ret = Some(FALSE))]_vars

\* an argument left out of add_memory reads back as the empty list / mapping
Given(opt) == IF opt = None THEN <<>> ELSE opt[1]

\* C7 as claimed: after a successful add_memory, get_memory_by_id of the
\* returned id gives the content, content_type, tags and metadata that were
\* passed, whatever they are, and the record has no embedding.
C7_AddThenGetReturnsArguments ==
    (last.op = "add_memory" /\ last.raised = "") =>
        /\ last.ret # None
        /\ last.ret[1].id = last.id
        /\ get_memory_by_id(last.id) = last.ret
        /\ last.ret[1].content = last.args.content
        /\ last.ret[1].content_type = last.args.content_type
        /\ last.ret[1].tags = Given(last.args.tags)
        /\ last.ret[1].metadata = Given(last.args.metadata)
        /\ "embedding" \notin DOMAIN last.ret[1]

\* every value of the dict is one JSON has a type for
JsonNative(dict) == \A k \in DOMAIN dict : dict[k].py \in {"str", "list"}

\* C7 as amended: after a successful add_memory, get_memory_by_id of the
\* returned id gives the content, content_type and tags that were passed; the
\* metadata is the JSON form of the metadata passed, identical to it when all
\* its values are JSON values (a tuple reads back as a list); the record has
\* no embedding.
C7_AddThenGetRoundTrip ==
    (last.op = "add_memory" /\ last.raised = "") =>
        /\ last.ret # None
        /\ last.ret[1].id = last.id
        /\ get_memory_by_id(last.id) = last.ret
        /\ last.ret[1].content = last.args.content
        /\ last.ret[1].content_type = last.args.content_type
        /\ last.ret[1].tags = Given(last.args.tags)
        /\ last.ret[1].metadata = json_object(Given(last.args.metadata))
        /\ (JsonNative(Given(last.args.metadata)) =>
                last.ret[1].metadata = Given(last.args.metadata))
        /\ "embedding" \notin DOMAIN last.ret[1]

C7_Witness ==
    /\ last.op = "add_memory"
    /\ last.raised = ""
    /\ last.args.tags = Some(<<"x">>)
    /\ last.args.metadata = Some(Meta1)
    /\ get_memory_by_id(last.id) # None
    /\ get_memory_by_id(last.id)[1].tags = <<"x">>
    /\ get_memory_by_id(last.id)[1].metadata = Meta1

\* the value a kwargs sequence gives a key
Supplied(kwargs, key) ==
    LET at == {k \in 1..Len(kwargs) : kwargs[k][1] = key}
    IN  IF at = {} THEN None ELSE Some(kwargs[CHOOSE k \in at : TRUE][2])

UpdateFields == {"tags", "metadata", "importance"}

\* C8: after update_memory(id, content?, tags?, metadata?, importance?) has
\* returned true, the record of id has every supplied value, an empty string
\* included, and every field that was not supplied is as before, updated_at
\* excepted.
C8_UpdateStoresEverySuppliedValue ==
    [][(/\ last'.op = "update_memory"
        /\ last'.ret = Some(TRUE)
        /\ \A k \in 1..Len(last'.args.kwargs) : last'.args.kwargs[k][1] \in UpdateFields) =>
        /\ last'.id \in DOMAIN memories'
        /\ memories'[last'.id].content =
               IF last'.args.content # None THEN last'.args.content[1]
               ELSE memories[last'.id].content
        /\ \A f \in UpdateFields :
               memories'[last'.id][f] =
                   IF Supplied(last'.args.kwargs, f) # None
                   THEN Supplied(last'.args.kwargs, f)[1]
                   ELSE memories[last'.id][f]
        /\ \A f \in {"id", "content_type", "created_at"} :
               memories'[last'.id][f] = memories[last'.id][f]]_vars

\* the hits of the last search_memories call
Hits == last.ret[1]

Searched == last.op = "search_memories" /\ last.raised = ""

Unfiltered == last.args.content_type = None /\ last.args.tags = None

\* C9: a search with top_k = k returns at most k results; without filters it
\* returns exactly min(k, N) of the N rows of the index; on an empty index it
\* returns the empty sequence.
C9_SearchReturnsMinOfTopKAndIndexSize ==
    Searched =>
        /\ Len(Hits) <= last.args.top_k
        /\ (Unfiltered => Len(Hits) = Min(last.args.top_k, Len(faiss_index)))
        /\ (Len(faiss_index) = 0 => Hits = <<>>)

C9_Witness ==
    /\ Searched
    /\ Unfiltered
    /\ last.args.top_k = 1
    /\ Len(faiss_index) = 2
    /\ Len(Hits) = 1

\* C10: the results are in order of non-increasing score, and in order of
\* non-decreasing squared L2 distance to the query, results of score 0
\* included.
C10_ResultsOrderedByScoreAndDistance ==
    Searched =>
        \A i, j \in 1..Len(Hits) :
            i < j => /\ Hits[i].score >= Hits[j].score
                     /\ Hits[i].D <= Hits[j].D

C10_Witness ==
    /\ Searched
    /\ Len(Hits) = 2
    /\ Hits[1].score = 0
    /\ Hits[2].score = 0
    /\ Hits[1].D = 2
    /\ Hits[2].D > 2

\* the ids whose persisted record matches the tags of the last query
Matching ==
    {i \in DOMAIN memories :
        IF last.args.require_all
        THEN \A k \in 1..Len(last.args.tags) : InSeq(last.args.tags[k], memories[i].tags)
        ELSE \E k \in 1..Len(last.args.tags) : InSeq(last.args.tags[k], memories[i].tags)}

\* C11: get_memories_by_tags(tags, require_all=True) returns exactly the
\* persisted records whose tags contain every listed tag, and with
\* require_all=False exactly those whose tags contain at least one listed tag,
\* each matching record once.
C11_TagQueryReturnsExactlyTheMatchingRecords ==
    last.op = "get_memories_by_tags" =>
        /\ Len(last.ret[1]) = Cardinality(Matching)
        /\ \A i \in Matching : \E k \in 1..Len(last.ret[1]) : last.ret[1][k] = memories[i]
        /\ \A k \in 1..Len(last.ret[1]) : \E i \in Matching : last.ret[1][k] = memories[i]

\* records tagged {x}, {y} and {x, y}: the query for [x, y] with require_all
\* gives the one record that has both
C11_Witness ==
    /\ last.op = "get_memories_by_tags"
    /\ last.args.tags = <<"x", "y">>
    /\ last.args.require_all
    /\ DOMAIN memories = {0, 1, 2}
    /\ {memories[i].tags : i \in DOMAIN memories} = {<<"x">>, <<"y">>, <<"x", "y">>}
    /\ Len(last.ret[1]) = 1
    /\ last.ret[1][1].tags = <<"x", "y">>

TagSet(registry) == {registry[k] : k \in 1..Len(registry)}

\* the tags a call was given
PassedTags(call) ==
    IF call.op = "add_memory" THEN TagSet(Given(call.args.tags))
    ELSE IF call.op = "update_memory"
    THEN TagSet(Given(Supplied(call.args.kwargs, "tags")))
    ELSE {}

\* the call ended without raising and without reporting failure
Succeeded(call) ==
    /\ call.raised = ""
    /\ call.op = "update_memory" => call.ret = Some(TRUE)

NewIds == {calls[t].id : t \in {u \in Threads : calls[u].op = "add_memory"}}

\* every thread called add_memory and every call has returned its record
AllAddsReturned ==
    \A t \in Threads :
        /\ calls[t].op = "add_memory"
        /\ calls[t].pc = "done"
        /\ calls[t].ret # None

\* C13: when two add_memory calls have run concurrently and both have
\* returned, both record files and both vector files exist and the index
\* holds the ids it held before and the id of at least one of the two calls;
\* an interleaving of the rebuilds that leaves the other id out exists (the
\* witness).
C13_ConcurrentAddsKeepFilesAndIndexOneNewId ==
    AllAddsReturned =>
        /\ NewIds \subseteq DOMAIN memories
        /\ NewIds \subseteq DOMAIN embeddings
        /\ 0 \in IndexedIds
        /\ NewIds \cap IndexedIds # {}
        /\ IndexedIds \subseteq DOMAIN embeddings

\* both calls returned, all four files exist, id 2 is in neither the id list
\* nor, by the number of rows, the Faiss index
C13_Witness ==
    /\ AllAddsReturned
    /\ NewIds = {1, 2}
    /\ NewIds \subseteq DOMAIN memories
    /\ NewIds \subseteq DOMAIN embeddings
    /\ IndexedIds = {0, 1}
    /\ Len(faiss_index) = 2

\* thread t ran search_memories to its end while the other thread ran one
\* mutating call
SearchedBesideMutation(t) ==
    /\ calls[t].op = "search_memories"
    /\ calls[t].pc = "done"
    /\ \E u \in Threads \ {t} : calls[u].op \in Mutating

\* C14: a search that runs concurrently with one mutating call returns what it
\* would return before or after the mutation; in particular every result has
\* a record, and its distance is the distance of the query to the vector of
\* that record's content.
C14_ConcurrentSearchPairsScoreWithItsRecord ==
    \A t \in Threads :
        SearchedBesideMutation(t) =>
            \A k \in 1..Len(calls[t].ret[1]) :
                LET item == calls[t].ret[1][k]
                IN  /\ item.memory_data # None
                    /\ item.D = L2sqr(get_embedding(calls[t].query_text),
                                      get_embedding(item.memory_data[1].content))

Immutable == {"id", "content_type", "created_at"}

\* C15: for every update_memory call on a stored record, the fields id,
\* content_type and created_at of the persisted record are the same before
\* and after, and the call creates no record file under another id.
C15_UpdateKeepsIdTypeAndCreationTime ==
    [][(last'.op = "update_memory" /\ last'.id \in DOMAIN memories) =>
        /\ DOMAIN memories' = DOMAIN memories
        /\ \A f \in Immutable : memories'[last'.id][f] = memories[last'.id][f]]_vars

\* the ids whose record delete_memory has removed.  Where no file operation
\* fails and clear_all_data is not called, every id of KnownIds had a record
\* (the stored one, or the one its add_memory wrote), and only delete_memory
\* removes a record file.
Deleted == {i \in KnownIds : i \notin DOMAIN memories}

\* C16: once delete_memory(id) has removed the record of id, no later add /
\* update / delete call makes get_memory_by_id(id) return a record again or
\* puts id back into the index.
C16_DeletedIsTerminal ==
    [][\A i \in Deleted :
        /\ _load_memory(memories', i) = None
        /\ i \notin {memory_ids_indexed'[k] : k \in 1..Len(memory_ids_indexed')}]_vars

\* the call reached the provider
ProviderCalled(call) ==
    call.raised = "get_embedding" \/ InSeq("get_embedding", call.log)

\* C17: an update_memory call that leaves the content as it is (content not
\* supplied, or equal to the stored content) does not call the provider, does
\* not write the vector file of the id and does not rebuild the index.
C17_UpdateWithoutNewContentLeavesVector ==
    [][(/\ last'.op = "update_memory"
        /\ last'.id \in DOMAIN memories
        /\ \/ last'.args.content = None
           \/ last'.args.content = Some(memories[last'.id].content)) =>
        /\ ~ProviderCalled(last')
        /\ ~InSeq("np_save", last'.log)
        /\ ~InSeq("build_index", last'.log)
        /\ _load_embedding(embeddings', last'.id) = _load_embedding(embeddings, last'.id)]_vars

\* C18: after any sequence of add / update / delete calls every id that has
\* a record file has a vector file, and the vector is the embedding of the
\* record's content.
C18_VectorIsEmbeddingOfContent ==
    last.op \in Mutating =>
        \A i \in DOMAIN memories :
            _load_embedding(embeddings, i) = Some(get_embedding(memories[i].content))

\* C19: delete_memory(id) returns true only if no removal raised, and then
\* neither file of id exists and the index does not hold id; if the removal
\* of the record file or of the vector file raises OSError the call returns
\* false and does not raise.
C19_DeleteReportsFailedRemoval ==
    [][last'.op = "delete_memory" =>
        LET record_raised == last'.id \in DOMAIN memories /\ "remove_memory" \in last'.faults
            vector_raised == last'.id \in DOMAIN embeddings /\ "remove_embedding" \in last'.faults
        IN  /\ (last'.ret = Some(TRUE) =>
                    /\ ~record_raised
                    /\ ~vector_raised
                    /\ last'.id \notin DOMAIN memories'
                    /\ last'.id \notin DOMAIN embeddings'
                    /\ \A k \in 1..Len(memory_ids_indexed') : memory_ids_indexed'[k] # last'.id)
            /\ ((record_raised \/ vector_raised) =>
                    last'.raised = "" /\ last'.ret = Some(FALSE))]_vars

\* the record file was removed, the removal of the vector file raised, the
\* call returned false
C19_Witness ==
    /\ last.op = "delete_memory"
    /\ last.faults = {"remove_embedding"}
    /\ last.id \notin DOMAIN memories
    /\ last.id \in DOMAIN embeddings
    /\ last.raised = ""
    /\ last.ret = Some(FALSE)

\* the call raised, or delete_memory reported failure
Failed(call) ==
    \/ call.raised # ""
    \/ call.op = "delete_memory" /\ call.ret = Some(FALSE)

\* C20: when an add / update / delete call fails at any step, the record
\* files, the vector files, tags.json and the in-memory registry and index
\* are exactly as they were before the call.
C20_FailedCallChangesNothing ==
    [][(last'.op \in Mutating /\ Failed(last')) => store' = store]_vars

\* C21: every persisted vector file has the configured dimension: a call that
\* would persist a vector of another length fails and writes no such file.
C21_EveryVectorFileHasTheDimension ==
    \A i \in DOMAIN embeddings : Len(embeddings[i]) = embedding_dimension

TypedOps == {"add_api_doc_memory", "add_test_case_memory", "add_conversation_memory"}

\* the content_type and the canonical tag of a type-specific constructor
TypeOf(op) ==
    CASE op = "add_api_doc_memory" -> "api_doc"
      [] op = "add_test_case_memory" -> "test_case"
      [] OTHER -> "conversation"

CanonicalTag(op) ==
    CASE op = "add_api_doc_memory" -> "api"
      [] op = "add_test_case_memory" -> "test"
      [] OTHER -> "conversation"

Count(x, s) == Cardinality({k \in 1..Len(s) : s[k] = x})

\* the record a type-specific constructor has just created
Created == last.op \in TypedOps /\ last.raised = ""

\* C22 as claimed: the record of a type-specific constructor has the
\* content_type of the constructor, and its tags hold every tag the caller
\* gave and the canonical tag exactly once.
C22_TypedRecordHasCanonicalTagOnce ==
    Created =>
        /\ memories[last.id].content_type = TypeOf(last.op)
        /\ \A k \in 1..Len(Given(last.args.tags)) :
               InSeq(Given(last.args.tags)[k], memories[last.id].tags)
        /\ Count(CanonicalTag(last.op), memories[last.id].tags) = 1

\* C22 as amended: the record has the content_type of the constructor; its
\* tags are the caller's list, followed by the canonical tag when the caller's
\* list does not have it; so the canonical tag is there exactly once when the
\* caller gave it at most once, and as often as the caller gave it otherwise.
C22_TypedRecordHasCallerTagsAndCanonicalTag ==
    Created =>
        /\ memories[last.id].content_type = TypeOf(last.op)
        /\ memories[last.id].tags =
               IF InSeq(CanonicalTag(last.op), Given(last.args.tags))
               THEN Given(last.args.tags)
               ELSE Append(Given(last.args.tags), CanonicalTag(last.op))
        /\ (Count(CanonicalTag(last.op), Given(last.args.tags)) <= 1 =>
                Count(CanonicalTag(last.op), memories[last.id].tags) = 1)

\* the caller gave [x, conversation]: nothing is appended
C22_Witness ==
    /\ Created
    /\ last.op = "add_conversation_memory"
    /\ last.args.tags = Some(<<"x", "conversation">>)
    /\ memories[last.id].tags = <<"x", "conversation">>
    /\ memories[last.id].content_type = "conversation"

\* the top_k nearest rows of the whole index for the query of the last search
Nearest == faiss_search(faiss_index, get_embedding(last.args.query_text), last.args.top_k)

\* the id the index holds for a position of Nearest
IdAt(p) == memory_ids_indexed[Nearest[p].label + 1]

\* the record of an id has the content_type and every tag the last search
\* asked for; an id without a record file passes when nothing was asked for
Wanted(i) ==
    IF i \notin DOMAIN memories THEN Unfiltered
    ELSE /\ TruthyStr(last.args.content_type) =>
                memories[i].content_type = last.args.content_type[1]
         /\ TruthyList(last.args.tags) =>
                \A k \in 1..Len(last.args.tags[1]) :
                    InSeq(last.args.tags[1][k], memories[i].tags)

\* the positions among the top_k nearest that hold a wanted record
WantedAmongNearest ==
    {p \in 1..Len(Nearest) :
        /\ Nearest[p].label >= 0
        /\ Nearest[p].label < Len(memory_ids_indexed)
        /\ Wanted(IdAt(p))}

\* C23: search_memories returns exactly those of the top_k nearest rows of
\* the whole index whose record has the given content_type and every given
\* tag; it does not look beyond the top_k nearest, so it can return fewer
\* than top_k results while further matching records are indexed.
C23_SearchFiltersTheTopKNearest ==
    (Searched /\ Len(faiss_index) > 0) =>
        /\ Len(Hits) = Cardinality(WantedAmongNearest)
        /\ \A p \in WantedAmongNearest :
               \E k \in 1..Len(Hits) :
                   Hits[k].memory_id = IdAt(p) /\ Hits[k].D = Nearest[p].D
        /\ \A k \in 1..Len(Hits) :
               \E p \in WantedAmongNearest :
                   Hits[k].memory_id = IdAt(p) /\ Hits[k].D = Nearest[p].D

\* top_k = 1 and content_type t1: the nearest record is of another type, the
\* result is empty although a record of type t1 is indexed
C23_Witness ==
    /\ Searched
    /\ last.args.top_k = 1
    /\ last.args.content_type = Some("t1")
    /\ Hits = <<>>
    /\ Len(faiss_index) = 2
    /\ \E i \in IndexedIds \cap DOMAIN memories : memories[i].content_type = "t1"

\* the record of id i is as its add_memory wrote it: every update_memory
\* sets updated_at to a later time
AsAdded(i) == i \in DOMAIN memories /\ memories[i].updated_at = memories[i].created_at

\* C24: when a record with content c is stored as add_memory wrote it,
\* search_memories(c, top_k=1) without filters returns exactly one result,
\* its record has content c, its distance is 0 and its score the maximum.
C24_SearchOfStoredContentReturnsIt ==
    (/\ Searched
     /\ Unfiltered
     /\ last.args.top_k = 1
     /\ \E i \in DOMAIN memories : AsAdded(i) /\ memories[i].content = last.args.query_text) =>
        /\ Len(Hits) = 1
        /\ Hits[1].memory_data # None
        /\ Hits[1].memory_data[1].content = last.args.query_text
        /\ Hits[1].D = 0
        /\ Hits[1].score = similarity_score(0)

\* C25: an add / update / delete call on id X leaves the record file and the
\* vector file of every other id as they were, whether it fails or not, and
\* update_memory neither creates nor removes a record file.
C25_CallTouchesOnlyItsOwnId ==
    [][last'.op \in Mutating =>
        /\ \A y \in Ids \ {last'.id} :
               /\ _load_memory(memories', y) = _load_memory(memories, y)
               /\ _load_embedding(embeddings', y) = _load_embedding(embeddings, y)
        /\ (last'.op = "update_memory" => DOMAIN memories' = DOMAIN memories)]_vars

\* the id lists a new JsonDataAccess over the same data directory can build:
\* one for each order os.listdir may report; {-1} when __init__ raises
RebuiltIdSets ==
    {LET built == _build_faiss_index(embeddings, listing, FALSE, <<>>, <<>>)
     IN  IF built.raised THEN {-1}
         ELSE {built.ids[k] : k \in 1..Len(built.ids)} :
         listing \in DirListings(DOMAIN memories)}

\* C26: after any sequence of calls, the ids in the index of this instance
\* are the ids a new instance over the same data directory would index.
C26_IndexIsWhatARebuildGives ==
    last.op \in Mutating \cup {"clear_all_data"} => RebuiltIdSets = {IndexedIds}

\* C27: after clear_all_data has returned there is no record file and no
\* vector file, tags.json and the registry are empty, the index is empty,
\* every get finds nothing and every search returns the empty sequence; an
\* add_memory right after it leaves exactly its own record, vector and index
\* entry.
C27_ClearLeavesAnEmptyUsableStore ==
    /\ [](last.op = "clear_all_data" /\ last.raised = "" =>
            /\ memories = <<>> /\ embeddings = <<>>
            /\ tags_file = <<>> /\ tags = <<>>
            /\ faiss_index = <<>> /\ memory_ids_indexed = <<>>
            /\ \A i \in Ids : get_memory_by_id(i) = None
            /\ \A q \in SearchQueries, k \in 1..MaxTopK :
                   search_memories(q, None, None, k, {}) = [results |-> <<>>, raised |-> ""])
    /\ [][(/\ last.op = "clear_all_data" /\ last.raised = ""
           /\ last'.op = "add_memory" /\ last'.raised = "") =>
            /\ DOMAIN memories' = {last'.id}
            /\ DOMAIN embeddings' = {last'.id}
            /\ memory_ids_indexed' = <<last'.id>>
            /\ Len(faiss_index') = 1]_vars

\* two add_memory calls, then clear_all_data returned
C27_Witness ==
    /\ last.op = "clear_all_data"
    /\ last.ret = Some(TRUE)
    /\ next_uuid = 3
    /\ memories = <<>>
    /\ tags_file = <<>>
    /\ memory_ids_indexed = <<>>

\* C28: after every _add_tags call that returned, the registry holds each
\* name at most once and every name of the call, tags.json has the content of
\* the registry, and the call returned its argument.
C28_EnsureKeepsNamesUniqueAndPersisted ==
    (last.op = "_add_tags" /\ last.raised = "") =>
        /\ \A j, k \in 1..Len(tags) : tags[j] = tags[k] => j = k
        /\ \A k \in 1..Len(last.args.tag_names) : InSeq(last.args.tag_names[k], tags)
        /\ tags_file = tags
        /\ last.ret = Some(last.args.tag_names)

\* x was registered, then _add_tags([y, y]) added y once
C28_Witness ==
    /\ last.op = "_add_tags"
    /\ last.raised = ""
    /\ last.args.tag_names = <<"y", "y">>
    /\ tags = <<"x", "y">>
    /\ tags_file = <<"x", "y">>

\* C30: after any sequence of add / update / delete calls, failed ones
\* included, every result of search_memories has a record, the id of the
\* record has a record file, and the search does not raise because an
\* indexed id has no record.
C30_SearchResultsHaveStoredRecords ==
    last.op = "search_memories" =>
        /\ last.raised # "AttributeError"
        /\ (last.raised = "" =>
                \A k \in 1..Len(Hits) :
                    /\ Hits[k].memory_data # None
                    /\ Hits[k].memory_id \in DOMAIN memories)

\* the tag names a call of _add_tags or add_memory passed, if any
C29_Passed(l) ==
    IF l.op = "_add_tags" THEN l.args.tag_names
    ELSE IF l.op = "add_memory" THEN OrElse(l.args.tags, <<>>)
    ELSE <<>>

====
